---- MODULE Spec2Model ----
(***************************************************************************)
(* TimeCamp MCP server: the tool router (src/src/index.ts, the variant     *)
(* that keeps the bearer token in a static field, and src/unnamed/part_000,*)
(* the variant that passes it in the per-call props) and the API client    *)
(* (src/src/timecamp-api.ts).                                              *)
(*                                                                         *)
(* JavaScript values are records [t, s, n]: t is the type tag, s the text  *)
(* of a string, n the value of a number.  Strings are TLA+ strings, read   *)
(* character by character with SubSeq.                                     *)
(***************************************************************************)
EXTENDS Integers, Sequences, FiniteSets, TLC

VARIABLES
    \* ---- router ----
    variant,      \* which build is deployed: "static" (index.ts) or "props" (part_000)
    envToken,     \* env.TIMECAMP_TOKEN, "" when not configured
    staticToken,  \* MyMCP.bearerToken (index.ts:154)
    rcall,        \* per inbound call: its request, position and outcome
    outbound,     \* requests the router's clients have sent: [call, auth]
    \* ---- API client ----
    pc,           \* position of the running client operation
    op,           \* the running operation: its name and arguments
    loc,          \* its local variables
    sent,         \* sequence of outbound requests of the operation
    recv,         \* sequence of the answers its requests got
    result        \* the envelope it returned

rvars == <<variant, envToken, staticToken, rcall, outbound>>
cvars == <<pc, op, loc, sent, recv, result>>
vars == <<variant, envToken, staticToken, rcall, outbound, pc, op, loc, sent, recv, result>>

(***************************************************************************)
(* JavaScript values and strings                                           *)
(***************************************************************************)
Undefined == [t |-> "undefined", s |-> "", n |-> 0]
Null == [t |-> "null", s |-> "", n |-> 0]
NaN == [t |-> "nan", s |-> "", n |-> 0]
Str(s) == [t |-> "str", s |-> s, n |-> 0]
Num(n) == [t |-> "num", s |-> "", n |-> n]

\* JavaScript truthiness of a value (if (x), x || y, x && y)
Truthy(v) ==
    CASE v.t = "str" -> v.s # ""
      [] v.t = "num" -> v.n # 0
      [] OTHER -> FALSE

CharAt(s, i) == SubSeq(s, i, i)

\* String.prototype.startsWith
StartsWith(s, p) == Len(s) >= Len(p) /\ SubSeq(s, 1, Len(p)) = p

\* String.prototype.substring(k) for 0 <= k
SubstringFrom(s, k) == IF k >= Len(s) THEN "" ELSE SubSeq(s, k + 1, Len(s))

\* String.prototype.substring(0, k)
SubstringTo(s, k) == IF k >= Len(s) THEN s ELSE SubSeq(s, 1, k)

(***************************************************************************)
(* Tool router                                                             *)
(***************************************************************************)
MaxCalls == 2
Calls == 1 .. MaxCalls

\* Authorization headers of inbound calls: none, well-formed for two users,
\* and a bare token without the "Bearer " prefix.
Headers == {Null, Str("Bearer A"), Str("Bearer B"), Str("A")}
Paths == {"/sse", "/mcp", "/"}
EnvTokens == {"", "E"}

\* the text content of a tool response: head is the text up to the JSON
\* payload, json the value JSON.stringify is applied to (when hasJson)
Text(head) == [head |-> head, hasJson |-> FALSE, json |-> <<>>]
TextWithJson(head, data) == [head |-> head, hasJson |-> TRUE, json |-> data]

\* the arguments of a tool call
Args(entryId, from, to, note, task_id) ==
    [entryId |-> entryId, from |-> from, to |-> to, note |-> note, task_id |-> task_id]
NoArgs == Args(Undefined, Undefined, Undefined, Undefined, Undefined)

NoCall == [pc |-> "idle", hdr |-> Null, path |-> "", bearerToken |-> "",
           props |-> "", clientToken |-> "", outcome |-> "",
           tool |-> "", args |-> NoArgs, text |-> Text("")]

\* index.ts fetch: the token the request resolves to (local bearerToken)
StaticResolve(hdr) ==
    IF Truthy(hdr) /\ StartsWith(hdr.s, "Bearer ")
    THEN SubstringFrom(hdr.s, 7)
    ELSE envToken

\* index.ts fetch: MyMCP.setBearerToken is called only with a non-empty token
StaticStore(tok) == IF tok # "" THEN tok ELSE staticToken

\* index.ts fetch: /sse, /sse/message and /mcp reach the agent, the rest is 404
StaticRouted(path) == path \in {"/sse", "/sse/message", "/mcp"}

\* index.ts fetch (lines 254-279)
StaticFetch(c, hdr, path) ==
    /\ variant = "static"
    /\ rcall[c].pc = "idle"
    /\ LET tok == StaticResolve(hdr) IN
       /\ staticToken' = StaticStore(tok)
       /\ rcall' = [rcall EXCEPT ![c] =
              [@ EXCEPT !.hdr = hdr, !.path = path, !.bearerToken = tok,
                        !.pc = IF StaticRouted(path) THEN "serving" ELSE "done",
                        !.outcome = IF StaticRouted(path) THEN "" ELSE "404"]]
    /\ UNCHANGED <<variant, envToken, outbound>>

\* index.ts tool handlers: the credential the client is built with
StaticClientToken(c) == staticToken

\* part_000 tool handlers: the credential the client is built with
PropsClientToken(c) == rcall[c].props

\* A tool handler: new TimeCampAPI(token) throws on an empty token, which the
\* handler renders as text; otherwise the operation sends its request with
\* getHeaders(), Authorization: Bearer <token>.
ToolHandler(c, tok) ==
    /\ rcall[c].pc = "serving"
    /\ IF tok = ""
       THEN /\ rcall' = [rcall EXCEPT ![c] =
                   [@ EXCEPT !.pc = "done", !.outcome = "error: No bearer token provided"]]
            /\ UNCHANGED outbound
       ELSE /\ rcall' = [rcall EXCEPT ![c] =
                   [@ EXCEPT !.pc = "done", !.clientToken = tok, !.outcome = "text"]]
            /\ outbound' = outbound \cup {[call |-> c, auth |-> "Bearer " \o tok]}
    /\ UNCHANGED <<variant, envToken, staticToken>>

\* index.ts init (lines 170-204, 214-248)
StaticToolHandler(c) ==
    /\ variant = "static"
    /\ ToolHandler(c, StaticClientToken(c))

\* part_000 app.mount: the token the request resolves to (local bearerToken)
PropsResolve(hdr) ==
    IF Truthy(hdr)
    THEN IF StartsWith(hdr.s, "Bearer ") THEN SubstringFrom(hdr.s, 7) ELSE hdr.s
    ELSE envToken

\* part_000 app.mount (lines 438-471)
PropsMount(c, hdr, path) ==
    /\ variant = "props"
    /\ rcall[c].pc = "idle"
    /\ IF ~StartsWith(path, "/sse")
       THEN rcall' = [rcall EXCEPT ![c] =
                [@ EXCEPT !.hdr = hdr, !.path = path, !.pc = "done", !.outcome = "page"]]
       ELSE LET tok == PropsResolve(hdr) IN
            IF tok = ""
            THEN rcall' = [rcall EXCEPT ![c] =
                     [@ EXCEPT !.hdr = hdr, !.path = path, !.bearerToken = tok,
                               !.pc = "done", !.outcome = "401"]]
            ELSE rcall' = [rcall EXCEPT ![c] =
                     [@ EXCEPT !.hdr = hdr, !.path = path, !.bearerToken = tok,
                               !.props = tok, !.pc = "serving"]]
    /\ UNCHANGED <<variant, envToken, staticToken, outbound>>

\* part_000 init (lines 248-282 and the other handlers)
PropsToolHandler(c) ==
    /\ variant = "props"
    /\ ToolHandler(c, PropsClientToken(c))


(***************************************************************************)
(* API client: strings, numbers and dates as the runtime computes them     *)
(***************************************************************************)
Digits == {"0", "1", "2", "3", "4", "5", "6", "7", "8", "9"}
IsDigit(c) == c \in Digits
DigitVal(c) ==
    CASE c = "0" -> 0 [] c = "1" -> 1 [] c = "2" -> 2 [] c = "3" -> 3
      [] c = "4" -> 4 [] c = "5" -> 5 [] c = "6" -> 6 [] c = "7" -> 7
      [] c = "8" -> 8 [] c = "9" -> 9

AllDigits(s) == \A i \in 1 .. Len(s) : IsDigit(CharAt(s, i))

RECURSIVE DecVal(_)
\* the value of a string of decimal digits
DecVal(s) ==
    IF s = "" THEN 0
    ELSE 10 * DecVal(SubSeq(s, 1, Len(s) - 1)) + DigitVal(CharAt(s, Len(s)))

RECURSIVE DigitPrefixLen(_)
\* how many leading characters of s are decimal digits
DigitPrefixLen(s) ==
    IF s = "" \/ ~IsDigit(CharAt(s, 1)) THEN 0
    ELSE 1 + DigitPrefixLen(SubstringFrom(s, 1))

\* parseInt(string): optional sign, then the longest prefix of digits; NaN
\* when there is none
ParseIntStr(s) ==
    LET neg == s # "" /\ CharAt(s, 1) = "-"
        body == IF s # "" /\ CharAt(s, 1) \in {"-", "+"} THEN SubstringFrom(s, 1) ELSE s
        k == DigitPrefixLen(body)
    IN IF k = 0 THEN NaN
       ELSE Num((IF neg THEN -1 ELSE 1) * DecVal(SubSeq(body, 1, k)))

\* parseInt(value): the argument is converted to a string first
ParseInt(v) ==
    CASE v.t = "str" -> ParseIntStr(v.s)
      [] v.t = "num" -> v
      [] OTHER -> NaN

RECURSIVE Split(_, _)
\* String.prototype.split(sep) for a one-character separator
Split(s, sep) ==
    IF \E i \in 1 .. Len(s) : CharAt(s, i) = sep
    THEN LET i == CHOOSE j \in 1 .. Len(s) :
                      /\ CharAt(s, j) = sep
                      /\ \A k \in 1 .. (j - 1) : CharAt(s, k) # sep
         IN <<SubSeq(s, 1, i - 1)>> \o Split(SubstringFrom(s, i), sep)
    ELSE <<s>>

\* String.prototype.includes for a one-character needle
Includes(s, ch) == \E i \in 1 .. Len(s) : CharAt(s, i) = ch

\* arr[i] of a split, 0-based; undefined past the end
SplitAt(parts, i) == IF i + 1 <= Len(parts) THEN Str(parts[i + 1]) ELSE Undefined

\* number to text, two digits wide
Pad2(n) == IF n < 10 THEN "0" \o ToString(n) ELSE ToString(n)

\* days since 1970-01-01 of a civil date; a day past the month's end runs
\* into the next month, as the runtime's MakeDay does
DaysFromCivil(y, m, d) ==
    LET yy == IF m <= 2 THEN y - 1 ELSE y
        era == yy \div 400
        yoe == yy - era * 400
        mp == IF m > 2 THEN m - 3 ELSE m + 9
        doy == (153 * mp + 2) \div 5 + d - 1
        doe == yoe * 365 + yoe \div 4 - yoe \div 100 + doy
    IN era * 146097 + doe - 719468

\* the civil date <<y, m, d>> of a day number
CivilFromDays(z0) ==
    LET z == z0 + 719468
        era == z \div 146097
        doe == z - era * 146097
        yoe == (doe - doe \div 1460 + doe \div 36524 - doe \div 146096) \div 365
        doy == doe - (365 * yoe + yoe \div 4 - yoe \div 100)
        mp == (5 * doy + 2) \div 153
        d == doy - (153 * mp + 2) \div 5 + 1
        m == IF mp < 10 THEN mp + 3 ELSE mp - 9
        y == yoe + era * 400 + (IF m <= 2 THEN 1 ELSE 0)
    IN <<y, m, d>>

\* the shape "dddd-dd-dd dd:dd" of the first 16 characters
MinuteShape(s) ==
    /\ Len(s) >= 16
    /\ \A i \in {1, 2, 3, 4, 6, 7, 9, 10, 12, 13, 15, 16} : IsDigit(CharAt(s, i))
    /\ CharAt(s, 5) = "-" /\ CharAt(s, 8) = "-"
    /\ CharAt(s, 11) = " " /\ CharAt(s, 14) = ":"

\* new Date(text).getTime() in seconds, for "YYYY-MM-DD HH:MM:SS" read in the
\* worker's zone (UTC); NaN for an Invalid Date.  Any other text the model
\* feeds it is not a date at all.
DateSeconds(s) ==
    IF Len(s) = 19 /\ MinuteShape(s) /\ CharAt(s, 17) = ":"
       /\ IsDigit(CharAt(s, 18)) /\ IsDigit(CharAt(s, 19))
    THEN LET y == DecVal(SubSeq(s, 1, 4))
             m == DecVal(SubSeq(s, 6, 7))
             d == DecVal(SubSeq(s, 9, 10))
             h == DecVal(SubSeq(s, 12, 13))
             mi == DecVal(SubSeq(s, 15, 16))
             se == DecVal(SubSeq(s, 18, 19))
         IN IF m \in 1 .. 12 /\ d \in 1 .. 31 /\ h \in 0 .. 23
               /\ mi \in 0 .. 59 /\ se \in 0 .. 59
            THEN Num(DaysFromCivil(y, m, d) * 86400 + h * 3600 + mi * 60 + se)
            ELSE NaN
    ELSE NaN

\* a slip: start - end
calculateDurationSwapped(startTime, endTime) ==
    LET start == DateSeconds(startTime)
        end == DateSeconds(endTime)
    IN IF start.t = "num" /\ end.t = "num"
       THEN Num(start.n - end.n)
       ELSE NaN

\* timecamp-api.ts calculateDuration: Math.floor((end - start) / 1000).  The
\* texts carry whole seconds, so getTime() is DateSeconds * 1000 and the
\* quotient is the difference of the seconds; NaN when either date is invalid.
calculateDuration(startTime, endTime) ==
    LET start == DateSeconds(startTime)
        end == DateSeconds(endTime)
    IN IF start.t = "num" /\ end.t = "num"
       THEN Num(end.n - start.n)
       ELSE NaN

\* timecamp-api.ts formatDateForAPI: ":00" is appended to "YYYY-MM-DD HH:MM"
formatDateForAPI(dateTime) ==
    IF Len(dateTime) = 16 /\ MinuteShape(dateTime)
    THEN dateTime \o ":00"
    ELSE dateTime

\* Math.floor(duration / 60)
FloorMinutes(duration) ==
    IF duration.t = "num" THEN Num(duration.n \div 60) ELSE NaN

\* `${n}` of a number
NumText(v) == IF v.t = "num" THEN ToString(v.n) ELSE "NaN"

(***************************************************************************)
(* API client: the remote service                                          *)
(***************************************************************************)
\* a JSON object with flat members
EObj(f) == [k |-> "object", f |-> f]
\* JSON null
ENull == [k |-> "null", f |-> <<>>]

\* response bodies
BodyArray(items) == [k |-> "array", items |-> items, members |-> <<>>]
BodyObject(members) == [k |-> "object", items |-> <<>>, members |-> members]
BodyUnparsable == [k |-> "unparsable", items |-> <<>>, members |-> <<>>]
\* the JSON text null
BodyNull == [k |-> "null", items |-> <<>>, members |-> <<>>]

\* what fetch() resolves or rejects with
Response(status, text, body) ==
    [neterr |-> FALSE, status |-> status, text |-> text, body |-> body]
NetworkError ==
    [neterr |-> TRUE, status |-> 0, text |-> "fetch failed", body |-> BodyUnparsable]

\* response.ok
Ok(resp) == resp.status \in 200 .. 299

\* a slip: the response body is left out of the message
StatusErrorWithoutBody(resp) ==
    "TimeCamp API request failed with status " \o ToString(resp.status)

\* the Error thrown on a non-2xx status
StatusError(resp) ==
    "TimeCamp API request failed with status " \o ToString(resp.status) \o ": " \o resp.text

Failure(msg) ==
    [success |-> FALSE, error |-> msg, message |-> "", duration |-> Undefined,
     data |-> BodyUnparsable]
Success(data, message, duration) ==
    [success |-> TRUE, error |-> "", message |-> message, duration |-> duration,
     data |-> data]

\* cls tells the two getTasks apart: "api" is the one of timecamp-api.ts,
\* "inline" the one of the TimeCampAPI class inside the router's file (the
\* other operations of that class are the same code, without task_id)
NoOp == [name |-> "none", cls |-> "api", bearerToken |-> "", entryId |-> "",
         from |-> Undefined, to |-> Undefined, note |-> Undefined,
         task_id |-> Undefined, date |-> Undefined]
NoLoc == [duration |-> Num(0), timeUpdated |-> FALSE,
          finalStartTime |-> Undefined, finalEndTime |-> Undefined,
          requestBody |-> <<>>]
NoResult == Failure("")

\* the failure a fetch that did not yield a parsed 2xx body ends in:
\* a rejected fetch, a non-2xx status, or response.json() throwing
FetchFailure(resp) ==
    IF resp.neterr THEN resp.text
    ELSE IF ~Ok(resp) THEN StatusError(resp)
    ELSE "Unexpected token in JSON"

\* the fetch yielded a parsed 2xx body
FetchOk(resp) == ~resp.neterr /\ Ok(resp) /\ resp.body.k # "unparsable"

Request(method, query, body) == [method |-> method, query |-> query, body |-> body]


(***************************************************************************)
(* API client: the arguments and remote answers the model draws from       *)
(***************************************************************************)
\* calendar days around a leap day, a month's end and a year's end
CreateDates == {"2024-02-28", "2024-02-29", "2024-03-01", "2025-06-21",
                "2025-06-22", "2025-12-31", "2026-01-01"}
CreateClock == {"00:00", "09:00", "09:43", "23:59"}
\* "YYYY-MM-DD HH:MM" arguments
MinuteStamps == {d \o " " \o t : d \in CreateDates, t \in CreateClock}
\* arguments in other forms: with seconds, an impossible month, not a date
OtherStamps == {"2025-06-21 09:00:30", "2025-06-21 09:44:10",
                "2025-13-01 09:00", "tomorrow", ""}
CreateStamps == MinuteStamps \cup OtherStamps
CreateNotes == {Str("emails & org")}
TaskIds == {Undefined, Str(""), Str("42")}

\* answers to a POST, PUT or DELETE
WriteResponses ==
    {Response(200, "", BodyObject(<<>>)), Response(200, "", BodyUnparsable),
     Response(404, "Not Found", BodyUnparsable), NetworkError}


\* stored entries the remote may list
EntryStored ==
    [id |-> Num(12), date |-> Str("2025-06-21"), start_time |-> Str("09:00:00"),
     end_time |-> Str("10:30:00"), duration |-> Str("5400"), name |-> Str("Dev"),
     description |-> Str("wrote code"), task_note |-> Str("wrote code"),
     locked |-> Num(0), addons_external_id |-> Null, color |-> Str("#fff"),
     hasEntryLocationHistory |-> Num(0), task_id |-> Str("42")]
\* the same entry with its id encoded as a string
EntryStringId == [EntryStored EXCEPT !.id = Str("12")]
\* an entry the remote stores no start time for
EntryNoStart ==
    [id |-> Num(12), date |-> Str("2025-06-21"), end_time |-> Str("10:30:00"),
     duration |-> Num(0)]
\* an entry whose times are numbers
EntryNumericTimes ==
    [id |-> Num(12), start_time |-> Num(900), end_time |-> Num(1030)]
\* an entry whose times are not HH:MM:SS
EntryOddTimes ==
    [id |-> Num(12), start_time |-> Str("9:05:00"), end_time |-> Str("late"),
     duration |-> Str("n/a")]
\* another entry, which already has members named like the added ones
EntryOther ==
    [id |-> Num(13), start_time |-> Str("17:00:00"), end_time |-> Str("17:45:00"),
     duration |-> Str("2700"), note |-> Str("kept?"), task_name |-> Str("kept?"),
     duration_seconds |-> Num(1), duration_hours |-> Num(1), user_id |-> Str("7")]

\* answers to the GET of entries
EntriesBodies ==
    {BodyArray(<<>>),
     BodyArray(<<EObj(<<>>)>>),
     BodyArray(<<EObj(EntryStored)>>),
     BodyArray(<<EObj(EntryOther), EObj(EntryStored)>>),
     BodyArray(<<EObj(EntryStringId)>>),
     BodyArray(<<EObj(EntryNoStart)>>),
     BodyArray(<<EObj(EntryNumericTimes)>>),
     BodyArray(<<EObj(EntryOddTimes)>>),
     BodyArray(<<EObj(EntryOther), ENull>>),
     BodyObject([e12 |-> EObj(EntryStored)]),
     BodyUnparsable}
EntriesResponses ==
    {Response(200, "", b) : b \in EntriesBodies}
      \cup {Response(500, "Internal Server Error", BodyUnparsable), NetworkError}

EntryIds == {"12", "abc"}
\* HH:MM arguments: absent, empty, well-formed, and malformed
TimeArgs == {Undefined, Str(""), Str("09:00"), Str("9:05"), Str("10:30"), Str("17:30"),
             Str("24:00"), Str("09:60"), Str("0900")}
UpdateNotes == {Undefined, Str(""), Str("emails & org")}
ListDates == {"2025-06-21", "2025-06-22"}
\* today's date at the call
Todays == {<<2025, 6, 21>>, <<2025, 3, 15>>}

(***************************************************************************)
(* API client: createTimeEntry                                             *)
(***************************************************************************)
\* from.split(' ')[0]
DatePart(from) == Split(from, " ")[1]

\* timecamp-api.ts createTimeEntry: the request body (lines 52-65)
CreateBody(from, startTime, endTime, duration, note, task_id) ==
    LET base == [get_entries |-> Num(0), date |-> Str(DatePart(from)),
                 start_time |-> Str(startTime), end_time |-> Str(endTime),
                 duration |-> duration, note |-> note,
                 service |-> Str("timecamp-mcp")]
    IN IF Truthy(task_id)
       THEN [key \in DOMAIN base \cup {"task_id"} |->
                IF key = "task_id" THEN task_id ELSE base[key]]
       ELSE base

\* a slip: duration < 0
NotPositiveStrict(duration) == duration.t = "num" /\ duration.n < 0

\* timecamp-api.ts createTimeEntry: duration <= 0 (false for NaN)
NotPositive(duration) == duration.t = "num" /\ duration.n <= 0

\* timecamp-api.ts createTimeEntry up to the fetch (lines 37-72)
CreateTimeEntry(from, to, note, task_id) ==
    /\ pc = "idle"
    /\ recv' = <<>>
    /\ op' = [NoOp EXCEPT !.name = "createTimeEntry", !.from = Str(from), !.to = Str(to),
                          !.note = note, !.task_id = task_id]
    /\ LET startTime == formatDateForAPI(from)
           endTime == formatDateForAPI(to)
           duration == calculateDuration(startTime, endTime)
       IN IF NotPositive(duration)
          THEN /\ result' = Failure("End time must be after start time")
               /\ pc' = "done"
               /\ loc' = [NoLoc EXCEPT !.duration = duration]
               /\ sent' = <<>>
          ELSE /\ sent' = <<Request("POST", <<>>,
                              CreateBody(from, startTime, endTime, duration, note, task_id))>>
               /\ loc' = [NoLoc EXCEPT !.duration = duration]
               /\ pc' = "awaitPost"
               /\ result' = NoResult

\* timecamp-api.ts createTimeEntry after the fetch (lines 74-91)
CreateResponse(resp) ==
    /\ pc = "awaitPost"
    /\ recv' = Append(recv, resp)
    /\ pc' = "done"
    /\ result' = IF FetchOk(resp)
                 THEN Success(resp.body,
                        "Successfully created time entry from " \o op.from.s \o " to "
                          \o op.to.s \o " (" \o NumText(FloorMinutes(loc.duration))
                          \o " minutes).",
                        FloorMinutes(loc.duration))
                 ELSE Failure(FetchFailure(resp))
    /\ UNCHANGED <<op, loc, sent>>

\* no tool handler is running: the operation is called on the client directly
NoHandler == \A c \in Calls : rcall[c].pc = "idle"

\* the caller takes the envelope; the client keeps nothing between calls
Return ==
    /\ pc \in {"done", "threw", "constructed"}
    /\ NoHandler
    /\ pc' = "idle"
    /\ op' = NoOp
    /\ loc' = NoLoc
    /\ sent' = <<>>
    /\ recv' = <<>>
    /\ result' = NoResult

(***************************************************************************)
(* API client: getTimeEntries                                              *)
(***************************************************************************)
\* a slip: duration is left in
DroppedFieldsKeepDuration ==
    {"task_note", "locked", "addons_external_id", "color", "description",
     "hasEntryLocationHistory", "name"}

\* the fields getTimeEntries takes out of every entry (line 119)
DroppedFields == {"task_note", "locked", "addons_external_id", "color", "description",
                  "hasEntryLocationHistory", "name", "duration"}

\* the fields getTimeEntries puts into every entry (lines 127-130)
AddedFields == {"task_name", "duration_seconds", "duration_hours", "note"}

\* entry.field of an object, undefined when the object has no such member
Member(f, key) == IF key \in DOMAIN f THEN f[key] ELSE Undefined

\* a || "" of a member
OrEmpty(v) == IF Truthy(v) THEN v ELSE Str("")

\* parseInt(duration) || 0
DurationSeconds(v) == IF Truthy(ParseInt(v)) THEN ParseInt(v) ELSE Num(0)

\* parseFloat((durationSeconds / 3600).toFixed(2)), kept in hundredths of an hour
DurationHours(ds) ==
    [t |-> "dec2", s |-> "",
     n |-> IF ds.n >= 0 THEN (2 * ds.n + 36) \div 72
           ELSE 0 - ((2 * (0 - ds.n) + 36) \div 72)]

\* timecamp-api.ts getTimeEntries: what one entry is mapped to (lines 118-131)
ProcessEntry(entry) ==
    LET f == entry.f
        ds == DurationSeconds(Member(f, "duration"))
        keep == DOMAIN f \ DroppedFields
    IN EObj([key \in keep \cup AddedFields |->
               CASE key = "task_name" -> OrEmpty(Member(f, "name"))
                 [] key = "duration_seconds" -> ds
                 [] key = "duration_hours" -> DurationHours(ds)
                 [] key = "note" -> OrEmpty(Member(f, "description"))
                 [] OTHER -> f[key]])

\* destructuring null throws a TypeError
MapThrows(items) == \E i \in 1 .. Len(items) : items[i].k = "null"

\* timecamp-api.ts getTimeEntries: processedData (lines 118-132)
ProcessBody(body) ==
    IF body.k = "array"
    THEN BodyArray([i \in 1 .. Len(body.items) |-> ProcessEntry(body.items[i])])
    ELSE body

\* timecamp-api.ts getTimeEntries after the fetch (lines 110-144)
EntriesResult(resp, fromDate, toDate) ==
    IF ~FetchOk(resp) THEN Failure(FetchFailure(resp))
    ELSE IF resp.body.k = "array" /\ MapThrows(resp.body.items)
    THEN Failure("Cannot destructure property 'task_note' of 'entry' as it is null.")
    ELSE Success(ProcessBody(resp.body),
                 "Time entries from " \o fromDate \o " to " \o toDate, Undefined)

\* timecamp-api.ts getTimeEntries: the GET it sends (lines 97-108)
EntriesRequest(fromDate, toDate, userIds, optFields) ==
    Request("GET", [from |-> fromDate, to |-> toDate, user_ids |-> userIds,
                    opt_fields |-> optFields], <<>>)

\* timecamp-api.ts getTimeEntries up to the fetch (lines 94-108)
GetTimeEntries(fromDate, toDate) ==
    /\ pc = "idle"
    /\ recv' = <<>>
    /\ op' = [NoOp EXCEPT !.name = "getTimeEntries", !.from = Str(fromDate),
                          !.to = Str(toDate)]
    /\ sent' = <<EntriesRequest(fromDate, toDate, "me", "tags")>>
    /\ pc' = "awaitList"
    /\ loc' = NoLoc
    /\ result' = NoResult

\* timecamp-api.ts getTimeEntries after the fetch (lines 110-144)
EntriesResponse(resp) ==
    /\ pc = "awaitList"
    /\ recv' = Append(recv, resp)
    /\ pc' = "done"
    /\ result' = EntriesResult(resp, op.from.s, op.to.s)
    /\ UNCHANGED <<op, loc, sent>>

(***************************************************************************)
(* API client: getTimeEntryById                                            *)
(***************************************************************************)
\* the window's length in days (line 204)
LookbackDays == 30

\* toISOString().split('T')[0] of a day
DateText(ymd) == ToString(ymd[1]) \o "-" \o Pad2(ymd[2]) \o "-" \o Pad2(ymd[3])

\* timecamp-api.ts getTimeEntryById: the searched range <<fromDate, toDate>>
\* (lines 196-208); now is today's date <<y, m, d>>
SearchRange(date, now) ==
    IF Truthy(date) THEN <<date.s, date.s>>
    ELSE <<DateText(CivilFromDays(DaysFromCivil(now[1], now[2], now[3]) - LookbackDays)),
           DateText(now)>>

\* entry.id === parseInt(entryId)
IdMatches(entry, entryId) ==
    LET id == Member(entry.f, "id")
        want == ParseIntStr(entryId)
    IN id.t = "num" /\ want.t = "num" /\ id.n = want.n

\* timecamp-api.ts getTimeEntryById after getTimeEntries (lines 212-232)
EntryByIdResult(entries, entryId) ==
    IF ~entries.success
    THEN Failure("Could not fetch time entries: " \o entries.error)
    ELSE IF entries.data.k # "array"
    THEN Failure("entriesResult.data.find is not a function")
    ELSE LET items == entries.data.items
             hits == {i \in 1 .. Len(items) : IdMatches(items[i], entryId)}
         IN IF hits = {}
            THEN Failure("Time entry with ID " \o entryId
                           \o " not found in the specified date range")
            ELSE Success(items[CHOOSE i \in hits : \A j \in hits : i <= j],
                         "Successfully found time entry with ID " \o entryId, Undefined)

(***************************************************************************)
(* API client: updateTimeEntry                                             *)
(***************************************************************************)
\* /^([01]?[0-9]|2[0-3]):[0-5][0-9]$/.test(s) (line 287)
TimeRegexTest(s) ==
    \/ /\ Len(s) = 5
       /\ \/ CharAt(s, 1) \in {"0", "1"} /\ IsDigit(CharAt(s, 2))
          \/ CharAt(s, 1) = "2" /\ CharAt(s, 2) \in {"0", "1", "2", "3"}
       /\ CharAt(s, 3) = ":"
       /\ CharAt(s, 4) \in {"0", "1", "2", "3", "4", "5"}
       /\ IsDigit(CharAt(s, 5))
    \/ /\ Len(s) = 4
       /\ IsDigit(CharAt(s, 1))
       /\ CharAt(s, 2) = ":"
       /\ CharAt(s, 3) \in {"0", "1", "2", "3", "4", "5"}
       /\ IsDigit(CharAt(s, 4))

\* number arithmetic: NaN in, NaN out
JsMul(a, k) == IF a.t = "num" THEN Num(a.n * k) ELSE NaN
JsAdd(a, b) == IF a.t = "num" /\ b.t = "num" THEN Num(a.n + b.n) ELSE NaN
JsSub(a, b) == IF a.t = "num" /\ b.t = "num" THEN Num(a.n - b.n) ELSE NaN

\* t.includes(':') && t.split(':').length === 2 ? t + ':00' : t (lines 326-327)
WithSeconds(t) ==
    IF Includes(t, ":") /\ Len(Split(t, ":")) = 2 THEN t \o ":00" ELSE t

\* parseInt(t.split(':')[0]) * 60 + parseInt(t.split(':')[1]) (lines 330-331)
MinuteOfDay(t) ==
    LET parts == Split(t, ":")
    IN JsAdd(JsMul(ParseInt(SplitAt(parts, 0)), 60), ParseInt(SplitAt(parts, 1)))

\* a slip: the time fields are written whether or not both times are known
TimeUpdateAlways(finalStartTime, finalEndTime) ==
    [applies |-> TRUE,
     start_time |-> Str(WithSeconds(finalStartTime.s)),
     end_time |-> Str(WithSeconds(finalEndTime.s)),
     duration |-> JsMul(JsSub(MinuteOfDay(finalEndTime.s),
                              MinuteOfDay(finalStartTime.s)), 60)]

\* timecamp-api.ts updateTimeEntry: the time fields of the update (lines 324-342)
TimeUpdate(finalStartTime, finalEndTime) ==
    IF Truthy(finalStartTime) /\ Truthy(finalEndTime)
    THEN [applies |-> TRUE,
          start_time |-> Str(WithSeconds(finalStartTime.s)),
          end_time |-> Str(WithSeconds(finalEndTime.s)),
          duration |-> JsMul(JsSub(MinuteOfDay(finalEndTime.s),
                                   MinuteOfDay(finalStartTime.s)), 60)]
    ELSE [applies |-> FALSE, start_time |-> Undefined, end_time |-> Undefined,
          duration |-> Num(0)]

\* timecamp-api.ts updateTimeEntry: note is sent when it is not undefined (line 345)
SendsNote(note) == note # Undefined

\* timecamp-api.ts updateTimeEntry: task_id is sent when it is truthy (line 349)
SendsTaskId(task_id) == Truthy(task_id)

\* timecamp-api.ts updateTimeEntry: the request body (lines 274-277, 338-351)
UpdateBody(entryId, tu, note, task_id) ==
    LET keys == {"id", "service"}
                  \cup (IF tu.applies THEN {"start_time", "end_time", "duration"} ELSE {})
                  \cup (IF SendsNote(note) THEN {"note"} ELSE {})
                  \cup (IF SendsTaskId(task_id) THEN {"task_id"} ELSE {})
    IN [key \in keys |->
          CASE key = "id" -> ParseIntStr(entryId)
            [] key = "service" -> Str("timecamp-mcp")
            [] key = "start_time" -> tu.start_time
            [] key = "end_time" -> tu.end_time
            [] key = "duration" -> tu.duration
            [] key = "note" -> note
            [] key = "task_id" -> ParseInt(task_id)]

\* timecamp-api.ts updateTimeEntry: exactly one of from/to is given (line 296)
OneSided(from, to) ==
    (Truthy(from) /\ ~Truthy(to)) \/ (~Truthy(from) /\ Truthy(to))

\* the rejected format of a given time, "" when both pass (lines 288-293)
FormatError(from, to) ==
    IF Truthy(from) /\ ~TimeRegexTest(from.s)
    THEN "Start time format must be HH:MM (e.g., 15:28)"
    ELSE IF Truthy(to) /\ ~TimeRegexTest(to.s)
    THEN "End time format must be HH:MM (e.g., 15:28)"
    ELSE ""

\* x?.substring(0, 5) of a member of the existing entry: undefined for a
\* missing or null member, a TypeError for a member that is no string
ThrowsOnSubstring(v) == v.t \notin {"str", "undefined", "null"}
HourMinute(v) == IF v.t = "str" THEN Str(SubstringTo(v.s, 5)) ELSE Undefined

\* timecamp-api.ts updateTimeEntry: from the time fields on (lines 324-358),
\* either the validation failure or the PUT
FinishUpdate(finalStartTime, finalEndTime) ==
    LET tu == TimeUpdate(finalStartTime, finalEndTime)
    IN IF tu.applies /\ NotPositive(tu.duration)
       THEN /\ result' = Failure("End time must be after start time")
            /\ pc' = "done"
            /\ loc' = [loc EXCEPT !.duration = tu.duration,
                                  !.finalStartTime = finalStartTime,
                                  !.finalEndTime = finalEndTime]
            /\ UNCHANGED sent
       ELSE LET body == UpdateBody(op'.entryId, tu, op'.note, op'.task_id)
            IN /\ sent' = Append(sent, Request("PUT", <<>>, body))
               /\ pc' = "awaitPut"
               /\ loc' = [loc EXCEPT !.duration = tu.duration,
                                     !.timeUpdated = tu.applies,
                                     !.finalStartTime = finalStartTime,
                                     !.finalEndTime = finalEndTime,
                                     !.requestBody = body]
               /\ result' = NoResult

\* a slip: the error is thrown outside the try block and reaches the caller
FailUpdateUncaught(msg) ==
    /\ result' = [NoResult EXCEPT !.error = msg]
    /\ pc' = "threw"
    /\ UNCHANGED <<loc, sent>>

\* the operation ends in a failure envelope without sending anything more
FailUpdate(msg) ==
    /\ result' = Failure(msg)
    /\ pc' = "done"
    /\ UNCHANGED <<loc, sent>>

\* timecamp-api.ts updateTimeEntry up to its first fetch (lines 271-358);
\* now is today's date, read by getTimeEntryById
UpdateTimeEntry(entryId, from, to, note, task_id, now) ==
    /\ pc = "idle"
    /\ recv' = <<>>
    /\ op' = [NoOp EXCEPT !.name = "updateTimeEntry", !.entryId = entryId,
                          !.from = from, !.to = to, !.note = note, !.task_id = task_id]
    /\ IF Truthy(from) \/ Truthy(to)
       THEN IF FormatError(from, to) # ""
            THEN FailUpdate(FormatError(from, to))
            ELSE IF OneSided(from, to)
            THEN LET range == SearchRange(Undefined, now)
                 IN /\ sent' = <<EntriesRequest(range[1], range[2], "me", "tags")>>
                    /\ pc' = "awaitLookup"
                    /\ loc' = [loc EXCEPT !.finalStartTime = from, !.finalEndTime = to]
                    /\ result' = NoResult
            ELSE FinishUpdate(from, to)
       ELSE FinishUpdate(from, to)

\* timecamp-api.ts updateTimeEntry: the times after the lookup (lines 303-316)
ResolvedStart(from, to, existing) ==
    IF ~Truthy(from) /\ Truthy(to)
    THEN HourMinute(Member(existing.f, "start_time"))
    ELSE from
ResolvedEndFromStart(from, to, existing) ==
    IF ~Truthy(from) /\ Truthy(to) THEN to
    ELSE IF Truthy(from) /\ ~Truthy(to)
    THEN HourMinute(Member(existing.f, "start_time"))
    ELSE to
ResolvedEnd(from, to, existing) ==
    IF ~Truthy(from) /\ Truthy(to) THEN to
    ELSE IF Truthy(from) /\ ~Truthy(to)
    THEN HourMinute(Member(existing.f, "end_time"))
    ELSE to

\* a slip: the outcome of the lookup is ignored and the update is sent anyway
UpdateLookupResponseGoesOn(resp) ==
    /\ pc = "awaitLookup"
    /\ recv' = Append(recv, resp)
    /\ UNCHANGED op
    /\ FinishUpdate(op.from, op.to)

\* timecamp-api.ts updateTimeEntry when the lookup's fetch settles: the rest of
\* getTimeEntries and getTimeEntryById, then lines 299-358
UpdateLookupResponse(resp) ==
    /\ pc = "awaitLookup"
    /\ recv' = Append(recv, resp)
    /\ UNCHANGED op
    /\ LET range == sent[1].query
           entries == EntriesResult(resp, range.from, range.to)
           entryResult == EntryByIdResult(entries, op.entryId)
       IN IF ~entryResult.success
          THEN FailUpdate("Could not fetch existing time entry: " \o entryResult.error)
          ELSE LET existing == entryResult.data
               IN IF \/ ThrowsOnSubstring(Member(existing.f, "start_time"))
                     \/ ThrowsOnSubstring(Member(existing.f, "end_time"))
                  THEN FailUpdate("existingEntry.start_time?.substring is not a function")
                  ELSE LET fs == ResolvedStart(op.from, op.to, existing)
                           fe == ResolvedEnd(op.from, op.to, existing)
                       IN IF ~Truthy(fs) \/ ~Truthy(fe)
                          THEN /\ result' = Failure(
                                    "Could not determine existing start or end time from the current entry")
                               /\ pc' = "done"
                               /\ loc' = [loc EXCEPT !.finalStartTime = fs,
                                                     !.finalEndTime = fe]
                               /\ UNCHANGED sent
                          ELSE FinishUpdate(fs, fe)

\* timecamp-api.ts updateTimeEntry after the PUT (lines 360-386)
UpdateResponse(resp) ==
    /\ pc = "awaitPut"
    /\ recv' = Append(recv, resp)
    /\ pc' = "done"
    /\ result' =
         IF FetchOk(resp)
         THEN Success(resp.body,
                "Successfully updated time entry ID " \o op.entryId
                  \o (IF loc.timeUpdated
                      THEN " with time from " \o loc.finalStartTime.s \o " to "
                             \o loc.finalEndTime.s \o " ("
                             \o NumText(FloorMinutes(loc.duration)) \o " minutes)"
                      ELSE "")
                  \o ".",
                IF loc.timeUpdated THEN FloorMinutes(loc.duration) ELSE Undefined)
         ELSE Failure(FetchFailure(resp))
    /\ UNCHANGED <<op, loc, sent>>

(***************************************************************************)
(* API client: getTasks                                                    *)
(***************************************************************************)
\* tasks the remote may list
TaskActive ==
    [task_id |-> Num(1), parent_id |-> Num(0), name |-> Str("Dev"), level |-> Num(1),
     archived |-> Num(0), note |-> Str("main"), color |-> Str("#fff")]
TaskArchived ==
    [task_id |-> Num(2), parent_id |-> Num(1), name |-> Str("Old"), level |-> Num(2),
     archived |-> Num(1), note |-> Str(""), color |-> Str("#000")]
\* tasks whose members are strings, as the remote encodes them
TaskStringActive ==
    [task_id |-> Str("3"), parent_id |-> Str("0"), name |-> Str("Ops"),
     level |-> Str("1"), archived |-> Str("0"), billable |-> Str("1")]
TaskStringArchived ==
    [task_id |-> Str("4"), parent_id |-> Str("3"), name |-> Str("Gone"),
     level |-> Str("2"), archived |-> Str("1"), note |-> Null]
\* a task the remote gives no archived flag for
TaskNoFlag == [task_id |-> Num(5), name |-> Str("Bare")]

\* answers to the GET of tasks: objects keyed by task id, in the remote's
\* enumeration order, and bodies of other shapes
TasksBodies ==
    {BodyObject(<<>>),
     BodyObject(<<EObj(TaskActive), EObj(TaskArchived)>>),
     BodyObject(<<EObj(TaskStringArchived), EObj(TaskStringActive), EObj(TaskNoFlag)>>),
     BodyObject(<<EObj(TaskActive), ENull>>),
     BodyArray(<<EObj(TaskArchived), EObj(TaskActive)>>),
     BodyNull,
     BodyUnparsable}
TasksResponses ==
    {Response(200, "", b) : b \in TasksBodies}
      \cup {Response(403, "Forbidden", BodyUnparsable), NetworkError}

\* x == 0 of a member: a number equal to 0, or a string that converts to 0
LooseEqualsZero(v) ==
    CASE v.t = "num" -> v.n = 0
      [] v.t = "str" -> v.s = "" \/ (AllDigits(v.s) /\ DecVal(v.s) = 0)
      [] OTHER -> FALSE

\* Object.values(result) of an array or an object
ObjectValues(body) == IF body.k = "array" THEN body.items ELSE body.members

\* the filter of getTasks (timecamp-api.ts line 169)
NotArchived(task) == LooseEqualsZero(Member(task.f, "archived"))

\* the record getTasks makes of a task (timecamp-api.ts lines 170-176)
ProjectTask(task) ==
    EObj([key \in {"task_id", "parent_id", "name", "level", "note"} |->
            Member(task.f, key)])

\* timecamp-api.ts getTasks after the fetch (lines 160-188)
TasksResult(resp) ==
    IF ~FetchOk(resp) THEN Failure(FetchFailure(resp))
    ELSE IF resp.body.k = "null"
    THEN Failure("Cannot convert undefined or null to object")
    ELSE LET values == ObjectValues(resp.body)
             kept == SelectSeq(values, NotArchived)
         IN IF \E i \in 1 .. Len(values) : values[i].k = "null"
            THEN Failure("Cannot read properties of null (reading 'archived')")
            ELSE Success(BodyArray([i \in 1 .. Len(kept) |-> ProjectTask(kept[i])]),
                   "Successfully fetched TimeCamp projects and tasks (non-archived only)",
                   Undefined)

\* part_000 getTasks after the fetch (lines 172-192): every value, as it is
InlineTasksResult(resp) ==
    IF ~FetchOk(resp) THEN Failure(FetchFailure(resp))
    ELSE IF resp.body.k = "null"
    THEN Failure("Cannot convert undefined or null to object")
    ELSE Success(BodyArray(ObjectValues(resp.body)),
                 "Successfully fetched TimeCamp projects and tasks", Undefined)

\* getTasks: the GET it sends (timecamp-api.ts lines 150-158)
TasksRequest == Request("GET", [ignoreAdminRights |-> "1"], <<>>)

\* getTasks up to the fetch (timecamp-api.ts lines 147-158, part_000 159-170)
GetTasks(cls) ==
    /\ pc = "idle"
    /\ recv' = <<>>
    /\ op' = [NoOp EXCEPT !.name = "getTasks", !.cls = cls]
    /\ sent' = <<TasksRequest>>
    /\ pc' = "awaitTasks"
    /\ loc' = NoLoc
    /\ result' = NoResult

\* getTasks after the fetch
TasksResponse(resp) ==
    /\ pc = "awaitTasks"
    /\ recv' = Append(recv, resp)
    /\ pc' = "done"
    /\ result' = IF op.cls = "api" THEN TasksResult(resp) ELSE InlineTasksResult(resp)
    /\ UNCHANGED <<op, loc, sent>>

(***************************************************************************)
(* API client: deleteTimeEntry                                             *)
(***************************************************************************)
\* timecamp-api.ts deleteTimeEntry: the DELETE it sends (lines 238-249)
DeleteRequest(entryId) ==
    Request("DELETE", <<>>, [form |-> "id=" \o entryId \o "&service=timecamp-mcp"])

\* timecamp-api.ts deleteTimeEntry up to the fetch (lines 235-249)
DeleteTimeEntry(entryId) ==
    /\ pc = "idle"
    /\ recv' = <<>>
    /\ op' = [NoOp EXCEPT !.name = "deleteTimeEntry", !.entryId = entryId]
    /\ sent' = <<DeleteRequest(entryId)>>
    /\ pc' = "awaitDelete"
    /\ loc' = NoLoc
    /\ result' = NoResult

\* timecamp-api.ts deleteTimeEntry after the fetch (lines 251-268)
DeleteResponse(resp) ==
    /\ pc = "awaitDelete"
    /\ recv' = Append(recv, resp)
    /\ pc' = "done"
    /\ result' = IF FetchOk(resp)
                 THEN Success(resp.body,
                        "Successfully deleted time entry with ID: " \o op.entryId,
                        Undefined)
                 ELSE Failure(FetchFailure(resp))
    /\ UNCHANGED <<op, loc, sent>>

(***************************************************************************)
(* API client: getTimeEntryById called on its own                          *)
(***************************************************************************)
\* the date argument: absent, empty, a day
ByIdDates == {Undefined, Str(""), Str("2025-06-21")}

\* timecamp-api.ts getTimeEntryById up to the fetch of getTimeEntries
\* (lines 191-211 and 94-108); now is today's date
GetTimeEntryById(entryId, date, now) ==
    /\ pc = "idle"
    /\ recv' = <<>>
    /\ op' = [NoOp EXCEPT !.name = "getTimeEntryById", !.entryId = entryId,
                          !.date = date]
    /\ LET range == SearchRange(date, now)
       IN sent' = <<EntriesRequest(range[1], range[2], "me", "tags")>>
    /\ pc' = "awaitById"
    /\ loc' = NoLoc
    /\ result' = NoResult

\* timecamp-api.ts getTimeEntryById when the fetch settles: the rest of
\* getTimeEntries (lines 110-144), then lines 212-232
EntryByIdResponse(resp) ==
    /\ pc = "awaitById"
    /\ recv' = Append(recv, resp)
    /\ pc' = "done"
    /\ LET range == sent[1].query
       IN result' = EntryByIdResult(EntriesResult(resp, range.from, range.to), op.entryId)
    /\ UNCHANGED <<op, loc, sent>>

(***************************************************************************)
(* API client: the constructor                                             *)
(***************************************************************************)
\* the credentials a client is built with: none, a user's
ClientTokens == {"", "A"}

\* timecamp-api.ts constructor (lines 6-13): throws on an empty token
Construct(bearerToken) ==
    /\ pc = "idle"
    /\ op' = [NoOp EXCEPT !.name = "constructor", !.bearerToken = bearerToken]
    /\ pc' = IF bearerToken = "" THEN "threw" ELSE "constructed"
    /\ result' = IF bearerToken = ""
                 THEN [NoResult EXCEPT !.error =
                        "No bearer token provided. Please set the TIMECAMP_TOKEN environment variable or provide Authorization header."]
                 ELSE NoResult
    /\ loc' = NoLoc
    /\ sent' = <<>>
    /\ recv' = <<>>

(***************************************************************************)
(* Tool router: the tool handlers, with the client operation they run      *)
(***************************************************************************)
\* the tools init() registers (index.ts lines 163-249, part_000 lines 241-411)
RegisteredTools ==
    IF variant = "static"
    THEN {"add_timecamp_time_entry", "get_timecamp_time_entries"}
    ELSE {"add_timecamp_time_entry", "get_timecamp_time_entries",
          "get_timecamp_tasks", "delete_timecamp_time_entry"}

\* the text each handler puts before an error
ErrorPrefix(tool) ==
    CASE tool = "add_timecamp_time_entry" -> "Error creating time entry: "
      [] tool = "get_timecamp_time_entries" -> "Error fetching time entries: "
      [] tool = "get_timecamp_tasks" -> "Error fetching tasks: "
      [] tool = "delete_timecamp_time_entry" -> "Error deleting time entry: "

\* the text each handler puts between the message and the JSON payload
PayloadLead(tool) ==
    IF tool \in {"add_timecamp_time_entry", "delete_timecamp_time_entry"}
    THEN " Response: " ELSE ":\n"

\* the token the build hands to a handler: the static field may still be
\* empty, the props of a mounted call never are (part_000 lines 460-467)
HandlerTokens == IF variant = "static" THEN {"", "A"} ELSE {"A"}

\* tool calls a caller may make: every tool of the README's list, with the
\* arguments of its row
ToolStamps == {"2025-06-21 09:00", "2025-06-21 09:43", "tomorrow"}
ToolCalls ==
    {<<"add_timecamp_time_entry", Args(Undefined, Str(f), Str(t), Str("emails & org"), k)>> :
        f \in ToolStamps, t \in ToolStamps, k \in {Undefined, Str("42")}}
    \cup {<<"get_timecamp_time_entries", Args(Undefined, Str(d), Str(d), Undefined, Undefined)>> :
        d \in ListDates}
    \cup {<<"get_timecamp_tasks", NoArgs>>}
    \cup {<<"delete_timecamp_time_entry", Args(Str(e), Undefined, Undefined, Undefined, Undefined)>> :
        e \in {"12345", "abc"}}
    \cup {<<"update_timecamp_time_entry", Args(Str("12"), Undefined, Undefined, n, Undefined)>> :
        n \in {Str("emails & org")}}

\* the operation a handler calls on its client, with the arguments it passes
\* (index.ts lines 173, 217; part_000 lines 251, 295, 336, 379)
Dispatch(tool, args) ==
    CASE tool = "add_timecamp_time_entry" ->
            CreateTimeEntry(args.from.s, args.to.s, args.note, Undefined)
      [] tool = "get_timecamp_time_entries" -> GetTimeEntries(args.from.s, args.to.s)
      [] tool = "get_timecamp_tasks" -> GetTasks("inline")
      [] tool = "delete_timecamp_time_entry" -> DeleteTimeEntry(args.entryId.s)

\* a tool call reaches the server: an unregistered tool is answered by the MCP
\* library; a registered tool's handler builds its client, which throws on an
\* empty token (caught and rendered, e.g. part_000 lines 272-281), and calls
\* the operation
ToolCall(c, tool, args, tok) ==
    /\ pc = "idle"
    /\ NoHandler
    /\ IF tool \notin RegisteredTools
       THEN /\ rcall' = [rcall EXCEPT ![c] =
                   [@ EXCEPT !.tool = tool, !.args = args, !.pc = "rendered",
                             !.outcome = "unregistered"]]
            /\ UNCHANGED cvars
       ELSE IF tok = ""
       THEN /\ rcall' = [rcall EXCEPT ![c] =
                   [@ EXCEPT !.tool = tool, !.args = args, !.pc = "rendered",
                             !.outcome = "text",
                             !.text = Text(ErrorPrefix(tool) \o
                                "No bearer token provided. Please set the TIMECAMP_TOKEN environment variable or provide Authorization header.")]]
            /\ UNCHANGED cvars
       ELSE /\ rcall' = [rcall EXCEPT ![c] =
                   [@ EXCEPT !.tool = tool, !.args = args, !.pc = "running",
                             !.clientToken = tok]]
            /\ Dispatch(tool, args)
    /\ UNCHANGED <<variant, envToken, staticToken, outbound>>

\* a slip: a failure is rendered without the tool's prefix
RenderBare(tool, envelope) ==
    IF envelope.success
    THEN TextWithJson(envelope.message \o PayloadLead(tool), envelope.data)
    ELSE Text(envelope.error)

\* what a handler makes of the envelope (e.g. part_000 lines 253-271)
Render(tool, envelope) ==
    IF envelope.success
    THEN TextWithJson(envelope.message \o PayloadLead(tool), envelope.data)
    ELSE Text(ErrorPrefix(tool) \o envelope.error)

\* the operation has returned: the handler renders the envelope
ToolRender(c) ==
    /\ rcall[c].pc = "running"
    /\ pc = "done"
    /\ rcall' = [rcall EXCEPT ![c] =
           [@ EXCEPT !.pc = "rendered", !.outcome = "text",
                     !.text = Render(rcall[c].tool, result)]]
    /\ UNCHANGED <<variant, envToken, staticToken, outbound>>
    /\ UNCHANGED cvars

\* the response is handed to the transport; nothing of the call is kept
ToolReturn(c) ==
    /\ rcall[c].pc = "rendered"
    /\ rcall' = [rcall EXCEPT ![c] = NoCall]
    /\ pc' = "idle"
    /\ op' = NoOp
    /\ loc' = NoLoc
    /\ sent' = <<>>
    /\ recv' = <<>>
    /\ result' = NoResult
    /\ UNCHANGED <<variant, envToken, staticToken, outbound>>

(***************************************************************************)
(* Specifications                                                          *)
(***************************************************************************)
RouterInit ==
    /\ variant \in {"static", "props"}
    /\ envToken \in EnvTokens
    /\ staticToken = ""
    /\ rcall = [c \in Calls |-> NoCall]
    /\ outbound = {}
    /\ pc = "idle"
    /\ op = NoOp
    /\ loc = NoLoc
    /\ sent = <<>>
    /\ recv = <<>>
    /\ result = NoResult

RouterNext ==
    \/ \E c \in Calls, hdr \in Headers, path \in Paths :
          (StaticFetch(c, hdr, path) /\ UNCHANGED cvars)
    \/ \E c \in Calls : (StaticToolHandler(c) /\ UNCHANGED cvars)
    \/ \E c \in Calls, hdr \in Headers, path \in Paths :
          (PropsMount(c, hdr, path) /\ UNCHANGED cvars)
    \/ \E c \in Calls : (PropsToolHandler(c) /\ UNCHANGED cvars)

RouterSpec == RouterInit /\ [][RouterNext]_vars

Init ==
    /\ variant \in {"static", "props"}
    /\ envToken = ""
    /\ staticToken = ""
    /\ rcall = [c \in Calls |-> NoCall]
    /\ outbound = {}
    /\ pc = "idle"
    /\ op = NoOp
    /\ loc = NoLoc
    /\ sent = <<>>
    /\ recv = <<>>
    /\ result = NoResult

Next ==
    \/ /\ pc = "idle" /\ NoHandler
       /\ \E from \in CreateStamps, to \in CreateStamps, note \in CreateNotes,
             task_id \in TaskIds : CreateTimeEntry(from, to, note, task_id)
       /\ UNCHANGED rvars
    \/ /\ pc = "awaitPost"
       /\ \E resp \in WriteResponses : CreateResponse(resp)
       /\ UNCHANGED rvars
    \/ /\ pc = "idle" /\ NoHandler
       /\ \E fromDate \in ListDates, toDate \in ListDates : GetTimeEntries(fromDate, toDate)
       /\ UNCHANGED rvars
    \/ /\ pc = "awaitList"
       /\ \E resp \in EntriesResponses : EntriesResponse(resp)
       /\ UNCHANGED rvars
    \/ /\ pc = "idle" /\ NoHandler
       /\ \E entryId \in EntryIds, from \in TimeArgs, to \in TimeArgs, note \in UpdateNotes,
             task_id \in TaskIds, now \in Todays :
             UpdateTimeEntry(entryId, from, to, note, task_id, now)
       /\ UNCHANGED rvars
    \/ /\ pc = "awaitLookup"
       /\ \E resp \in EntriesResponses : UpdateLookupResponse(resp)
       /\ UNCHANGED rvars
    \/ /\ pc = "awaitPut"
       /\ \E resp \in WriteResponses : UpdateResponse(resp)
       /\ UNCHANGED rvars
    \/ /\ pc = "idle" /\ NoHandler
       /\ GetTasks("api")
       /\ UNCHANGED rvars
    \/ /\ pc = "awaitTasks"
       /\ \E resp \in TasksResponses : TasksResponse(resp)
       /\ UNCHANGED rvars
    \/ /\ pc = "idle" /\ NoHandler
       /\ \E entryId \in EntryIds : DeleteTimeEntry(entryId)
       /\ UNCHANGED rvars
    \/ /\ pc = "awaitDelete"
       /\ \E resp \in WriteResponses : DeleteResponse(resp)
       /\ UNCHANGED rvars
    \/ /\ pc = "idle" /\ NoHandler
       /\ \E entryId \in EntryIds, date \in ByIdDates, now \in Todays :
             GetTimeEntryById(entryId, date, now)
       /\ UNCHANGED rvars
    \/ /\ pc = "awaitById"
       /\ \E resp \in EntriesResponses : EntryByIdResponse(resp)
       /\ UNCHANGED rvars
    \/ /\ pc = "idle" /\ NoHandler
       /\ \E bearerToken \in ClientTokens : Construct(bearerToken)
       /\ UNCHANGED rvars
    \/ /\ pc = "idle" /\ NoHandler
       /\ \E c \in Calls, call \in ToolCalls, tok \in HandlerTokens :
             ToolCall(c, call[1], call[2], tok)
    \/ \E c \in Calls : ToolRender(c)
    \/ \E c \in Calls : ToolReturn(c)
    \/ (Return /\ UNCHANGED rvars)

Spec == Init /\ [][Next]_vars

\* the runtime settles every fetch: the promise resolves or rejects
Settle ==
    \/ \E resp \in WriteResponses :
          (CreateResponse(resp) \/ UpdateResponse(resp) \/ DeleteResponse(resp))
            /\ UNCHANGED rvars
    \/ \E resp \in EntriesResponses :
          (EntriesResponse(resp) \/ UpdateLookupResponse(resp) \/ EntryByIdResponse(resp))
            /\ UNCHANGED rvars
    \/ \E resp \in TasksResponses : TasksResponse(resp) /\ UNCHANGED rvars

\* the client under a runtime that settles every fetch
LiveSpec == Init /\ [][Next]_vars /\ WF_vars(Settle)


(***************************************************************************)
(* Properties: what the statements below are phrased in                    *)
(***************************************************************************)
\* the credential an Authorization header carries
HeaderCredential(hdr) ==
    IF StartsWith(hdr.s, "Bearer ") THEN SubstringFrom(hdr.s, 7) ELSE hdr.s

\* a call that reached the agent without a header while no default is configured
Uncredentialed(c) ==
    /\ rcall[c].pc = "done"
    /\ rcall[c].path = "/sse"
    /\ rcall[c].hdr = Null
    /\ envToken = ""

IsLeap(y) == (y % 4 = 0 /\ y % 100 # 0) \/ y % 400 = 0
DaysInMonth(y, m) ==
    CASE m \in {4, 6, 9, 11} -> 30
      [] m = 2 -> IF IsLeap(y) THEN 29 ELSE 28
      [] OTHER -> 31

\* <<year, month, day, hour, minute, second>> of "YYYY-MM-DD HH:MM[:SS]"
StampFields(s) ==
    <<DecVal(SubSeq(s, 1, 4)), DecVal(SubSeq(s, 6, 7)), DecVal(SubSeq(s, 9, 10)),
      DecVal(SubSeq(s, 12, 13)), DecVal(SubSeq(s, 15, 16)),
      IF Len(s) = 19 THEN DecVal(SubSeq(s, 18, 19)) ELSE 0>>

\* s names a moment of the calendar, to the minute or to the second
RealStamp(s) ==
    /\ MinuteShape(s)
    /\ \/ Len(s) = 16
       \/ Len(s) = 19 /\ CharAt(s, 17) = ":" /\ AllDigits(SubSeq(s, 18, 19))
    /\ LET f == StampFields(s)
       IN /\ f[2] \in 1 .. 12
          /\ f[3] \in 1 .. DaysInMonth(f[1], f[2])
          /\ f[4] \in 0 .. 23 /\ f[5] \in 0 .. 59 /\ f[6] \in 0 .. 59

\* s is in the "YYYY-MM-DD HH:MM" form
RealMinuteStamp(s) == RealStamp(s) /\ Len(s) = 16

\* a is earlier than b, field by field
Earlier(a, b) ==
    \E i \in 1 .. 6 : a[i] < b[i] /\ \A j \in 1 .. (i - 1) : a[j] = b[j]

RECURSIVE DaysBeforeYear(_)
\* days from 2024-01-01 to the first day of year y
DaysBeforeYear(y) ==
    IF y <= 2024 THEN 0
    ELSE DaysBeforeYear(y - 1) + (IF IsLeap(y - 1) THEN 366 ELSE 365)

RECURSIVE DaysBeforeMonth(_, _)
DaysBeforeMonth(y, m) ==
    IF m <= 1 THEN 0 ELSE DaysBeforeMonth(y, m - 1) + DaysInMonth(y, m - 1)

\* seconds from 2024-01-01 00:00:00 to the moment s names
CalendarSeconds(s) ==
    LET f == StampFields(s)
    IN (DaysBeforeYear(f[1]) + DaysBeforeMonth(f[1], f[2]) + f[3] - 1) * 86400
         + f[4] * 3600 + f[5] * 60 + f[6]

\* whole minutes from from to to
MinutesBetween(from, to) == (CalendarSeconds(to) - CalendarSeconds(from)) \div 60

\* the running operation
Running(name) == pc # "idle" /\ op.name = name

\* the answer to the operation's i-th request has a 2xx status
Answered2xx(i) == Len(recv) >= i /\ ~recv[i].neterr /\ recv[i].status \in 200 .. 299

\* ... and a body that parses as JSON
AnsweredJson(i) == Answered2xx(i) /\ recv[i].body.k # "unparsable"

\* the requests of a method the operation has sent
SentOf(method) == {i \in 1 .. Len(sent) : sent[i].method = method}

\* s is HH:MM with hour 0-23 (one or two digits) and minute 0-59
HourMinuteTexts ==
    {ToString(h) \o ":" \o Pad2(m) : h \in 0 .. 23, m \in 0 .. 59}
      \cup {Pad2(h) \o ":" \o Pad2(m) : h \in 0 .. 23, m \in 0 .. 59}
IsHourMinute(s) == s \in HourMinuteTexts

\* minute of the day of "HH:MM", "H:MM" or "HH:MM:SS"
ClockMinute(s) ==
    IF CharAt(s, 2) = ":"
    THEN DecVal(SubSeq(s, 1, 1)) * 60 + DecVal(SubSeq(s, 3, 4))
    ELSE DecVal(SubSeq(s, 1, 2)) * 60 + DecVal(SubSeq(s, 4, 5))

\* v is a time "HH:MM:SS" as the remote stores it
StoredTime(v) ==
    /\ v.t = "str"
    /\ Len(v.s) = 8
    /\ AllDigits(SubSeq(v.s, 1, 2)) /\ AllDigits(SubSeq(v.s, 4, 5))
    /\ AllDigits(SubSeq(v.s, 7, 8))
    /\ CharAt(v.s, 3) = ":" /\ CharAt(v.s, 6) = ":"
    /\ IsHourMinute(SubSeq(v.s, 1, 5))

\* the remote entries of an answer whose id is the number entryId names
ListedWithId(resp, entryId) ==
    IF resp.body.k = "array" /\ AllDigits(entryId) /\ entryId # ""
    THEN {i \in 1 .. Len(resp.body.items) :
            /\ resp.body.items[i].k = "object"
            /\ "id" \in DOMAIN resp.body.items[i].f
            /\ resp.body.items[i].f.id = Num(DecVal(entryId))}
    ELSE {}

\* the lookup's answer lists the entry, with both times stored as HH:MM:SS
LookupFound ==
    /\ AnsweredJson(1)
    /\ recv[1].body.k = "array"
    /\ \A i \in 1 .. Len(recv[1].body.items) : recv[1].body.items[i].k = "object"
    /\ ListedWithId(recv[1], op.entryId) # {}
    /\ LET e == recv[1].body.items[CHOOSE i \in ListedWithId(recv[1], op.entryId) :
                    \A j \in ListedWithId(recv[1], op.entryId) : i <= j].f
       IN /\ "start_time" \in DOMAIN e /\ StoredTime(e.start_time)
          /\ "end_time" \in DOMAIN e /\ StoredTime(e.end_time)
Existing ==
    recv[1].body.items[CHOOSE i \in ListedWithId(recv[1], op.entryId) :
        \A j \in ListedWithId(recv[1], op.entryId) : i <= j].f

\* only from, or only to, is given, and it is HH:MM
OnlyFrom == op.from.t = "str" /\ IsHourMinute(op.from.s) /\ op.to = Undefined
OnlyTo == op.to.t = "str" /\ IsHourMinute(op.to.s) /\ op.from = Undefined

\* the members of a listEntries result: the items of an array, the member
\* values of any other object
Elements(data) ==
    IF data.k = "array" THEN {data.items[i] : i \in 1 .. Len(data.items)}
    ELSE IF data.k = "object" THEN {data.members[key] : key \in DOMAIN data.members}
    ELSE {}

Shaped(e) ==
    /\ e.k = "object"
    /\ DOMAIN e.f \cap {"task_note", "locked", "addons_external_id", "color", "description",
                        "hasEntryLocationHistory", "name", "duration"} = {}
    /\ {"task_name", "duration_seconds", "duration_hours", "note"} \subseteq DOMAIN e.f

(***************************************************************************)
(* Properties                                                              *)
(***************************************************************************)
\* C1: every outbound request made on behalf of a call carries exactly the
\* credential resolved for that call, never another call's.
CredentialIsolation ==
    \A r \in outbound :
        rcall[r.call].bearerToken # "" =>
            r.auth = "Bearer " \o rcall[r.call].bearerToken

\* C2: a call with no Authorization header while no default credential is
\* configured is rejected as unauthorized; no client is built for it and no
\* outbound request is issued for it, whatever calls were served before.
UnauthorizedRejected ==
    \A c \in Calls :
        Uncredentialed(c) =>
            /\ rcall[c].outcome \in {"401", "error: No bearer token provided"}
            /\ rcall[c].clientToken = ""
            /\ \A r \in outbound : r.call # c

\* C3: a call's client is built with the credential of the call's Authorization
\* header whenever it has one, and with the configured default only when it
\* has none.
HeaderTakesPrecedence ==
    \A c \in Calls :
        rcall[c].clientToken # "" =>
            IF rcall[c].hdr # Null
            THEN rcall[c].clientToken = HeaderCredential(rcall[c].hdr)
            ELSE rcall[c].clientToken = envToken

\* C1-C3 in the build that passes the credential in the call's props
\* (part_000): all three hold there.
PropsVariantSound ==
    variant = "props" =>
        CredentialIsolation /\ UnauthorizedRejected /\ HeaderTakesPrecedence

\* C4: createEntry with to at or before from returns the validation failure
\* and sends no POST.
CreateRejectsNotAfter ==
    (/\ Running("createTimeEntry")
     /\ RealStamp(op.from.s) /\ RealStamp(op.to.s)
     /\ ~Earlier(StampFields(op.from.s), StampFields(op.to.s)))
    => /\ pc = "done"
       /\ ~result.success
       /\ result.error = "End time must be after start time"
       /\ sent = <<>>

CreateRejectsNotAfterWitness ==
    /\ Running("createTimeEntry")
    /\ op.from.s = "2024-03-01 00:00" /\ op.to.s = "2024-02-29 23:59"
    /\ pc = "done" /\ ~result.success /\ sent = <<>>

\* the POST of createEntry carries the seconds between from and to
CreatePosted ==
    /\ Len(sent) = 1
    /\ sent[1].method = "POST"
    /\ sent[1].body.duration = Num(CalendarSeconds(op.to.s) - CalendarSeconds(op.from.s))

\* C5 as stated: for from/to in "YYYY-MM-DD HH:MM" form with to after from,
\* createEntry succeeds whenever the remote answers 2xx, with the duration in
\* minutes floor(seconds / 60).
CreateSucceedsOn2xx ==
    (/\ Running("createTimeEntry")
     /\ RealMinuteStamp(op.from.s) /\ RealMinuteStamp(op.to.s)
     /\ Earlier(StampFields(op.from.s), StampFields(op.to.s)))
    => /\ CreatePosted
       /\ Answered2xx(1) =>
            /\ result.success
            /\ result.duration = Num(MinutesBetween(op.from.s, op.to.s))

\* C5 amended: ... succeeds whenever the remote answers 2xx with a body that
\* parses as JSON, with the duration in minutes floor(seconds / 60).
CreateSucceedsOn2xxJson ==
    (/\ Running("createTimeEntry")
     /\ RealMinuteStamp(op.from.s) /\ RealMinuteStamp(op.to.s)
     /\ Earlier(StampFields(op.from.s), StampFields(op.to.s)))
    => /\ CreatePosted
       /\ AnsweredJson(1) =>
            /\ pc = "done"
            /\ result.success
            /\ result.duration = Num(MinutesBetween(op.from.s, op.to.s))

CreateSucceedsWitness ==
    /\ Running("createTimeEntry")
    /\ op.from.s = "2025-06-21 09:00" /\ op.to.s = "2025-06-21 09:43"
    /\ op.note = Str("emails & org")
    /\ AnsweredJson(1)
    /\ result.success /\ result.duration = Num(43)

\* C6: updateEntry given only from (or only to) fetches the existing entry and
\* sends a PUT whose duration is computed from the given time and the entry's
\* other time; when the end is not after the start in minutes of the day it
\* returns the validation failure and sends no PUT.
UpdateOneSidedUsesExisting ==
    (Running("updateTimeEntry") /\ (OnlyFrom \/ OnlyTo))
    => /\ Len(sent) >= 1 /\ sent[1].method = "GET"
       /\ LookupFound =>
            LET start == IF OnlyFrom THEN ClockMinute(op.from.s)
                         ELSE ClockMinute(Existing.start_time.s)
                end == IF OnlyTo THEN ClockMinute(op.to.s)
                       ELSE ClockMinute(Existing.end_time.s)
            IN IF end > start
               THEN /\ Len(sent) = 2 /\ sent[2].method = "PUT"
                    /\ sent[2].body.duration = Num((end - start) * 60)
               ELSE /\ pc = "done" /\ ~result.success
                    /\ result.error = "End time must be after start time"
                    /\ SentOf("PUT") = {}

UpdateOneSidedWitness ==
    /\ Running("updateTimeEntry")
    /\ op.from = Str("09:00") /\ op.to = Undefined
    /\ LookupFound
    /\ Existing.end_time = Str("10:30:00")
    /\ Len(sent) = 2 /\ sent[2].method = "PUT" /\ sent[2].body.duration = Num(5400)

\* C7: updateEntry with no time arguments sends a PUT whose payload has none of
\* start_time, end_time, duration, and no lookup GET before it.
UpdateWithoutTimes ==
    (Running("updateTimeEntry") /\ op.from = Undefined /\ op.to = Undefined)
    => /\ Len(sent) = 1
       /\ sent[1].method = "PUT"
       /\ DOMAIN sent[1].body \cap {"start_time", "end_time", "duration"} = {}

UpdateWithoutTimesWitness ==
    /\ Running("updateTimeEntry")
    /\ op.from = Undefined /\ op.to = Undefined /\ op.note = Str("emails & org")
    /\ Len(sent) = 1 /\ sent[1].method = "PUT"
    /\ "note" \in DOMAIN sent[1].body
    /\ pc = "done" /\ result.success

\* C8: in every PUT of updateEntry, note is present iff the note argument was
\* provided (an empty value included), and task_id is present iff the task_id
\* argument was provided.
UpdateSendsWhatWasGiven ==
    Running("updateTimeEntry") =>
        \A i \in SentOf("PUT") :
            /\ ("note" \in DOMAIN sent[i].body) <=> (op.note # Undefined)
            /\ ("task_id" \in DOMAIN sent[i].body) <=> (op.task_id # Undefined)

\* C9: in updateEntry, a supplied from or to that is not HH:MM gives a
\* validation failure and no outbound request at all.
UpdateRejectsMalformed ==
    (/\ Running("updateTimeEntry")
     /\ \/ op.from # Undefined /\ ~IsHourMinute(op.from.s)
        \/ op.to # Undefined /\ ~IsHourMinute(op.to.s))
    => /\ pc = "done"
       /\ ~result.success
       /\ result.error \in {"Start time format must be HH:MM (e.g., 15:28)",
                            "End time format must be HH:MM (e.g., 15:28)"}
       /\ sent = <<>>

\* C10 as stated: whenever listEntries returns success, every element of its
\* data has task_name, duration_seconds, duration_hours and note and none of
\* the dropped keys, for every body the remote may return with a 2xx status.
ListShapedForEveryBody ==
    (Running("getTimeEntries") /\ pc = "done" /\ result.success)
    => \A e \in Elements(result.data) : Shaped(e)

\* C10 amended: ... whenever listEntries returns success and the remote's body
\* is a JSON array (any other body is passed through as it is).
ListShapedForArrays ==
    (Running("getTimeEntries") /\ pc = "done" /\ result.success
       /\ recv[1].body.k = "array")
    => /\ result.data.k = "array"
       /\ Len(result.data.items) = Len(recv[1].body.items)
       /\ \A e \in Elements(result.data) : Shaped(e)

ListShapedWitness ==
    /\ Running("getTimeEntries") /\ pc = "done" /\ result.success
    /\ recv[1].body = BodyArray(<<EObj(EntryOther), EObj(EntryStored)>>)
    /\ Len(result.data.items) = 2

\* the keys listEntries is to take out of an entry
NoisyKeys == {"task_note", "locked", "addons_external_id", "color", "description",
              "hasEntryLocationHistory", "name", "duration"}

\* listEntries returned the array the remote listed, element for element
ListedArray ==
    /\ Running("getTimeEntries") /\ pc = "done" /\ result.success
    /\ recv[1].body.k = "array"
    /\ result.data.k = "array"
    /\ Len(result.data.items) = Len(recv[1].body.items)

\* C11: listEntries renames description to note and name to task_name, and
\* every other field of a remote entry outside the dropped set is in the output
\* entry with its original value, also when the remote entry already has a
\* field named note, task_name, duration_seconds or duration_hours.
ListPassesThrough ==
    ListedArray =>
        \A i \in 1 .. Len(recv[1].body.items) :
            LET remote == recv[1].body.items[i].f
                out == result.data.items[i].f
            IN /\ \A key \in DOMAIN remote \ NoisyKeys :
                     key \in DOMAIN out /\ out[key] = remote[key]
               /\ "description" \in DOMAIN remote => out.note = remote.description
               /\ "name" \in DOMAIN remote => out.task_name = remote.name

\* C11 apart from the four added names: the fields of a remote entry outside
\* the dropped set and outside the added names keep their values, and note and
\* task_name are the remote description and name.
ListPassesThroughOtherNames ==
    ListedArray =>
        \A i \in 1 .. Len(recv[1].body.items) :
            LET remote == recv[1].body.items[i].f
                out == result.data.items[i].f
            IN /\ \A key \in DOMAIN remote \ (NoisyKeys \cup
                        {"note", "task_name", "duration_seconds", "duration_hours"}) :
                     key \in DOMAIN out /\ out[key] = remote[key]
               /\ "description" \in DOMAIN remote => out.note = remote.description
               /\ "name" \in DOMAIN remote => out.task_name = remote.name

\* the tasks of the remote's answer, and those among them whose archived flag
\* is 0 (as a number or as the text "0")
RemoteTasks(body) == IF body.k = "array" THEN body.items ELSE body.members
Unarchived(body) ==
    {i \in 1 .. Len(RemoteTasks(body)) :
        /\ "archived" \in DOMAIN RemoteTasks(body)[i].f
        /\ RemoteTasks(body)[i].f.archived \in {Num(0), Str("0")}}

\* the value a record is to have for a field of the remote task
FieldOf(task, key) == IF key \in DOMAIN task THEN task[key] ELSE Undefined

\* C12: listTasks output excludes every remote task whose archived flag is not
\* 0, has one record for every other remote task, and each record has exactly
\* the fields task_id, parent_id, name, level, note.
TasksFiltered ==
    (Running("getTasks") /\ pc = "done" /\ result.success)
    => LET body == recv[1].body
           keep == Unarchived(body)
           out == result.data.items
       IN /\ Len(out) = Cardinality(keep)
          /\ \A j \in 1 .. Len(out) :
                DOMAIN out[j].f = {"task_id", "parent_id", "name", "level", "note"}
          /\ \A i \in keep : \E j \in 1 .. Len(out) :
                \A key \in {"task_id", "parent_id", "name", "level", "note"} :
                    out[j].f[key] = FieldOf(RemoteTasks(body)[i].f, key)

\* C12 for the class of timecamp-api.ts alone
TasksFilteredByApiClass == op.cls = "api" => TasksFiltered

\* the six operations of the client
Operations == {"createTimeEntry", "getTimeEntries", "getTasks", "getTimeEntryById",
               "updateTimeEntry", "deleteTimeEntry"}

\* the operation is waiting for a fetch
Awaiting ==
    pc \in {"awaitPost", "awaitList", "awaitTasks", "awaitById", "awaitLookup",
            "awaitPut", "awaitDelete"}

\* r is an envelope: success with a message, or failure with an error text
IsEnvelope(r) ==
    IF r.success THEN r.message # "" /\ r.error = ""
    ELSE r.error # "" /\ r.message = ""

\* an operation never throws and what it returns is an envelope; the
\* constructor throws exactly when the token is empty
OnlyConstructorThrows ==
    /\ op.name \in Operations => (Awaiting \/ (pc = "done" /\ IsEnvelope(result)))
    /\ op.name = "constructor" =>
          pc = (IF op.bearerToken = "" THEN "threw" ELSE "constructed")
    /\ pc = "threw" => (op.name = "constructor" /\ op.bearerToken = "")

\* C13: every client operation ends by returning an envelope and never lets
\* an exception out, whatever the arguments and whatever the remote does
\* (non-2xx status, network failure, unparsable or oddly shaped body); only
\* constructing a client without a credential throws.
OperationsReturnEnvelopes ==
    /\ []OnlyConstructorThrows
    /\ (Awaiting ~> (pc = "done" /\ IsEnvelope(result)))

OperationsReturnEnvelopesWitness ==
    /\ Running("updateTimeEntry") /\ pc = "done"
    /\ op.from = Str("09:00") /\ op.to = Undefined
    /\ recv[1].body = BodyArray(<<EObj(EntryNumericTimes)>>)
    /\ result = Failure("existingEntry.start_time?.substring is not a function")

\* the texts the tools put before an error
ErrorPrefixes ==
    {"Error creating time entry: ", "Error fetching time entries: ",
     "Error fetching tasks: ", "Error deleting time entry: ",
     "Error updating time entry: "}

\* the message of the constructor's exception
NoTokenMessage ==
    "No bearer token provided. Please set the TIMECAMP_TOKEN environment variable or provide Authorization header."

\* call c was dispatched to a registered tool's handler
Handled(c) == rcall[c].tool # "" /\ rcall[c].outcome # "unregistered"

\* the handler of call c has built its client
ClientBuilt(c) == rcall[c].clientToken # ""

\* C14: every tool call the router handles ends in a text response: a failure
\* envelope and an exception raised during dispatch (the constructor failing on
\* an empty credential included) are rendered as an error-prefixed text, and
\* no exception leaves the handler.
ToolCallsEndInText ==
    \A c \in Calls :
        Handled(c) =>
            /\ rcall[c].pc \in {"running", "rendered"}
            /\ rcall[c].pc = "running" => (Awaiting \/ pc = "done")
            /\ rcall[c].pc = "rendered" =>
                 /\ rcall[c].outcome = "text"
                 /\ IF ~ClientBuilt(c)
                    THEN \E prefix \in ErrorPrefixes :
                            rcall[c].text = Text(prefix \o NoTokenMessage)
                    ELSE IF ~result.success
                    THEN \E prefix \in ErrorPrefixes :
                            rcall[c].text = Text(prefix \o result.error)
                    ELSE /\ rcall[c].text.hasJson
                         /\ rcall[c].text.json = result.data
                         /\ StartsWith(rcall[c].text.head, result.message)

\* a handler rendered the constructor's exception
ToolCallsEndInTextWitness ==
    \E c \in Calls :
        /\ Handled(c) /\ rcall[c].pc = "rendered" /\ ~ClientBuilt(c)
        /\ rcall[c].tool = "get_timecamp_time_entries"
        /\ rcall[c].text = Text("Error fetching time entries: " \o NoTokenMessage)

\* the tool catalog: the five tools the README lists
Catalog ==
    {"add_timecamp_time_entry", "get_timecamp_time_entries", "get_timecamp_tasks",
     "delete_timecamp_time_entry", "update_timecamp_time_entry"}

\* the client operation of a tool
OperationOf(tool) ==
    CASE tool = "add_timecamp_time_entry" -> "createTimeEntry"
      [] tool = "get_timecamp_time_entries" -> "getTimeEntries"
      [] tool = "get_timecamp_tasks" -> "getTasks"
      [] tool = "delete_timecamp_time_entry" -> "deleteTimeEntry"
      [] tool = "update_timecamp_time_entry" -> "updateTimeEntry"

\* the operation runs with the arguments of the call
Forwarded(args) ==
    /\ args.entryId # Undefined => op.entryId = args.entryId.s
    /\ args.from # Undefined => op.from = args.from
    /\ args.to # Undefined => op.to = args.to
    /\ args.note # Undefined => op.note = args.note
    /\ op.task_id = args.task_id

\* C15: the router registers the five tools of the catalog, and a call to any
\* of them runs exactly one client operation, the one of the tool's name, with
\* every argument of the call (the optional task_id included).
CatalogServed ==
    \A c \in Calls :
        (rcall[c].tool \in Catalog /\ (rcall[c].clientToken # "" \/ rcall[c].pc = "rendered"))
        => /\ rcall[c].outcome # "unregistered"
           /\ ClientBuilt(c) =>
                /\ op.name = OperationOf(rcall[c].tool)
                /\ Forwarded(rcall[c].args)

\* C15 for the tools a build registers, task_id apart: the handler runs the
\* tool's operation with the from, to, note and entryId of the call.
RegisteredToolsServed ==
    \A c \in Calls :
        (Handled(c) /\ ClientBuilt(c))
        => /\ op.name = OperationOf(rcall[c].tool)
           /\ Forwarded([rcall[c].args EXCEPT !.task_id = Undefined])

\* sub occurs in s
Contains(s, sub) ==
    \E i \in 1 .. (Len(s) - Len(sub) + 1) : SubSeq(s, i, i + Len(sub) - 1) = sub

\* the answers with a status outside 200-299 the operation has got
AnsweredNon2xx ==
    {i \in 1 .. Len(recv) : ~recv[i].neterr /\ recv[i].status \notin 200 .. 299}

\* C16: when the remote answers a request of an operation with a non-2xx
\* status, the operation returns a failure whose error text contains the status
\* code and the response body as they are, and the router renders it behind the
\* tool's error prefix (delete_timecamp_time_entry: "Error deleting time
\* entry: ").
Non2xxSurfaced ==
    \A i \in AnsweredNon2xx :
        /\ pc = "done"
        /\ ~result.success
        /\ Contains(result.error, "status " \o ToString(recv[i].status))
        /\ Contains(result.error, recv[i].text)
        /\ \A c \in Calls :
              (Handled(c) /\ rcall[c].pc = "rendered") =>
                 /\ \E prefix \in ErrorPrefixes :
                       rcall[c].text = Text(prefix \o result.error)
                 /\ rcall[c].tool = "delete_timecamp_time_entry" =>
                       StartsWith(rcall[c].text.head, "Error deleting time entry: ")

Non2xxSurfacedWitness ==
    \E c \in Calls :
        /\ rcall[c].tool = "delete_timecamp_time_entry"
        /\ rcall[c].args.entryId = Str("12345")
        /\ rcall[c].pc = "rendered"
        /\ AnsweredNon2xx = {1} /\ recv[1].status = 404
        /\ rcall[c].text = Text("Error deleting time entry: TimeCamp API request failed with status 404: Not Found")

\* the requests of the operation that failed: a rejected fetch or a status
\* outside 200-299
FailedRequests ==
    {i \in 1 .. Len(recv) : recv[i].neterr \/ recv[i].status \notin 200 .. 299}

\* after a failed request nothing more is sent and the operation has failed
NothingAfterFailure ==
    \A i \in FailedRequests :
        /\ Len(sent) = i
        /\ pc = "done"
        /\ ~result.success
        /\ Contains(result.error, FetchFailure(recv[i]))

\* what an operation has returned stays as it is until the caller takes it
ReturnedOnce ==
    pc = "done" =>
        \/ pc' = "idle"
        \/ pc' = "done" /\ result' = result /\ sent' = sent /\ recv' = recv

\* C17: no retries: once a request of an operation has failed (non-2xx status
\* or network error) the operation sends no further request, and the failure
\* is returned to the caller exactly once.
NoRetries == []NothingAfterFailure /\ [][ReturnedOnce]_vars

NoRetriesWitness ==
    /\ Running("updateTimeEntry") /\ pc = "done"
    /\ op.to = Str("10:30") /\ op.from = Undefined
    /\ recv = <<NetworkError>>
    /\ Len(sent) = 1 /\ sent[1].method = "GET"
    /\ result = Failure("Could not fetch existing time entry: Could not fetch time entries: fetch failed")

\* the lookup of updateEntry found the entry and, with the time that was
\* given, both a start and an end time are known: the entry has a time for
\* each side that was not given
LookupGaveTimes ==
    /\ AnsweredJson(1)
    /\ recv[1].body.k = "array"
    /\ ListedWithId(recv[1], op.entryId) # {}
    /\ op.from = Undefined =>
          /\ "start_time" \in DOMAIN Existing
          /\ Existing.start_time.t = "str" /\ Existing.start_time.s # ""
    /\ op.to = Undefined =>
          /\ "end_time" \in DOMAIN Existing
          /\ Existing.end_time.t = "str" /\ Existing.end_time.s # ""

\* the order of the requests of one updateEntry
UpdateOrdered ==
    /\ Len(sent) <= 2
    /\ SentOf("GET") \subseteq {1}
    /\ SentOf("PUT") \subseteq {Len(sent)}
    /\ SentOf("GET") = {1} => ((op.from # Undefined) # (op.to # Undefined))
    /\ (SentOf("GET") = {1} /\ SentOf("PUT") # {}) => (Len(recv) >= 1 /\ LookupGaveTimes)
    /\ (SentOf("GET") = {1} /\ Len(recv) >= 1 /\ ~LookupGaveTimes) =>
          (pc = "done" /\ ~result.success /\ SentOf("PUT") = {})

\* C18: one updateEntry sends at most two requests; the lookup GET is sent only
\* when exactly one of from/to is supplied; the PUT is sent only after the GET
\* has resolved, and only if the lookup succeeded and gave both a start and an
\* end time; a failed or empty lookup ends in a failure and no PUT.
UpdateRequestOrder == Running("updateTimeEntry") => UpdateOrdered

\* C18 for arguments that are not the empty string
UpdateRequestOrderNonEmptyArgs ==
    (Running("updateTimeEntry") /\ op.from # Str("") /\ op.to # Str("")) => UpdateOrdered

\* the number an id stands for, as a JSON number or as a text of digits;
\* -1 when it stands for none
IdNumber(v) ==
    CASE v.t = "num" -> v.n
      [] v.t = "str" /\ v.s # "" /\ AllDigits(v.s) -> DecVal(v.s)
      [] OTHER -> -1

\* the entries of the answer whose id is numerically the requested one
ListedWithNumericId(resp, entryId) ==
    {i \in 1 .. Len(resp.body.items) :
        /\ "id" \in DOMAIN resp.body.items[i].f
        /\ IdNumber(Str(entryId)) >= 0
        /\ IdNumber(resp.body.items[i].f.id) = IdNumber(Str(entryId))}

\* the remote answered the search with a list of entries
SearchAnswered ==
    /\ Running("getTimeEntryById") /\ pc = "done"
    /\ AnsweredJson(1)
    /\ recv[1].body.k = "array"
    /\ \A i \in 1 .. Len(recv[1].body.items) : recv[1].body.items[i].k = "object"

\* days from 2024-01-01 to the day "YYYY-MM-DD"
DayNumber(d) == CalendarSeconds(d \o " 00:00") \div 86400

\* the range getEntryById searches: the given day, or the 30 days up to today
SearchedRange ==
    LET q == sent[1].query
    IN IF Truthy(op.date)
       THEN q.from = op.date.s /\ q.to = op.date.s
       ELSE /\ q.to \in {"2025-06-21", "2025-03-15"}
            /\ DayNumber(q.to) - DayNumber(q.from) = 30

\* the outcome of the search, given the entries that have the requested id
SearchOutcome(hits) ==
    IF hits # {}
    THEN /\ result.success
         /\ result.data.k = "object"
         /\ IdNumber(result.data.f.id) = IdNumber(Str(op.entryId))
    ELSE /\ ~result.success
         /\ result.error = "Time entry with ID " \o op.entryId
                             \o " not found in the specified date range"

\* C19: getEntryById returns success with the entry whenever the entries the
\* remote lists for the searched range include one whose id equals the
\* requested id numerically, as a number or as a numeric string, and the
\* not-found failure exactly when there is none; the range is the given date,
\* or the trailing 30 days when none is given.
EntryByIdFindsNumericIds ==
    (Running("getTimeEntryById") => SearchedRange)
    /\ (SearchAnswered => SearchOutcome(ListedWithNumericId(recv[1], op.entryId)))

\* C19 for ids the remote encodes as numbers
EntryByIdFindsNumberIds ==
    (Running("getTimeEntryById") => SearchedRange)
    /\ (SearchAnswered => SearchOutcome(ListedWithId(recv[1], op.entryId)))

\* s is a time of day "HH:MM:SS" or "H:MM:SS"
ClockText(s) ==
    /\ Len(s) \in {7, 8}
    /\ IsHourMinute(SubSeq(s, 1, Len(s) - 3))
    /\ CharAt(s, Len(s) - 2) = ":"
    /\ AllDigits(SubSeq(s, Len(s) - 1, Len(s)))
    /\ DecVal(SubSeq(s, Len(s) - 1, Len(s))) <= 59

\* seconds of the day of such a time
ClockSeconds(s) == ClockMinute(s) * 60 + DecVal(SubSeq(s, Len(s) - 1, Len(s)))

\* the duration of a payload is a positive whole number of seconds
PositiveSeconds(body) == body.duration.t = "num" /\ body.duration.n > 0

\* a POST of createEntry: its duration is the seconds from start_time to end_time
PostConsistent(body) ==
    /\ PositiveSeconds(body)
    /\ body.start_time.t = "str" /\ RealStamp(body.start_time.s)
    /\ body.end_time.t = "str" /\ RealStamp(body.end_time.s)
    /\ body.duration.n = CalendarSeconds(body.end_time.s) - CalendarSeconds(body.start_time.s)

\* a PUT of updateEntry with time fields: the same, for times of one day
PutConsistent(body) ==
    /\ PositiveSeconds(body)
    /\ body.start_time.t = "str" /\ ClockText(body.start_time.s)
    /\ body.end_time.t = "str" /\ ClockText(body.end_time.s)
    /\ body.duration.n = ClockSeconds(body.end_time.s) - ClockSeconds(body.start_time.s)

\* C20: every POST of createEntry, and every PUT of updateEntry that carries
\* time fields, has a duration that is a positive whole number of seconds, the
\* difference of the end_time and start_time of the same payload, whatever the
\* argument strings (unparsable ones included) and whatever start and end the
\* remote stores in the existing entry.
WritesCarryTheirDuration ==
    /\ Running("createTimeEntry") =>
          \A i \in SentOf("POST") : PostConsistent(sent[i].body)
    /\ Running("updateTimeEntry") =>
          \A i \in SentOf("PUT") :
              "duration" \in DOMAIN sent[i].body => PutConsistent(sent[i].body)

\* C20 for arguments that name moments of the calendar and for existing
\* entries whose times are stored as HH:MM:SS
WritesCarryTheirDurationParsable ==
    /\ (Running("createTimeEntry") /\ RealStamp(op.from.s) /\ RealStamp(op.to.s)) =>
          \A i \in SentOf("POST") : PostConsistent(sent[i].body)
    /\ (Running("updateTimeEntry") /\ (Len(sent) = 2 => LookupFound)) =>
          \A i \in SentOf("PUT") :
              "duration" \in DOMAIN sent[i].body => PutConsistent(sent[i].body)

====
